---- MODULE Spec2Model ----
(***************************************************************************)
(* SecureBYTE parallel chunk processor                                     *)
(* (SecureByte_Parallel_Processing_Tester/parallel_chunk_processor.py).    *)
(*                                                                         *)
(* A source file is a sequence of lines; a line is modelled by its kind    *)
(* and its position, so a text (a chunk, a stretch of the file) is the     *)
(* sequence of the line numbers it holds and "\n".join / splitlines are    *)
(* concatenation / the sequence itself.  Whitespace inside a line is not   *)
(* represented: strip() is modelled on whole lines (it drops the leading   *)
(* and trailing blank lines of a text).                                    *)
(***************************************************************************)
EXTENDS Integers, Sequences, FiniteSets, TLC

VARIABLES
    code,            \* code_to_analyze / code_string: the file's lines (kinds)
    fileOk,          \* whether open()/read() of the file succeeds
    pc,              \* position of main_analysis_function / chunk_code_by_ast
    tree,            \* tree.body of chunk_code_by_ast
    nodeIdx,         \* position of `for node in tree.body`
    chunks,          \* the chunk list
    top_level_code,  \* pending import lines
    last_node_end,   \* last_node_end
    tasks,           \* one analyze_chunk coroutine per chunk
    finished,        \* chunk numbers in the order their tasks ended
    results,         \* results of asyncio.gather, sorted in place
    report,          \* the printed report sections
    exitStatus,      \* exit status of the process (-1 while it runs)
    prev,            \* what an earlier run of the program was and printed
    linesPerChunk,   \* chunk_code_by_lines: its lines_per_chunk argument
    lineIdx,         \* chunk_code_by_lines: i of `for i in range(...)`
    projects,        \* app.py: users/<user_id>/projects of the database
    submissions,     \* app.py: users/<user_id>/submissions of the database
    issued,          \* app.py: the ids uuid.uuid4() has given so far
    now,             \* app.py: the clock that get_timestamp() reads
    resp,            \* app.py: the response to the last request
    reqs,            \* app.py: the requests being served, each at its step
    memory,          \* memory_service.py: the five collections
    memOp            \* memory_service.py: the last call made

vars == <<code, fileOk, pc, tree, nodeIdx, chunks, top_level_code,
          last_node_end, tasks, finished, results, report, exitStatus, prev,
          linesPerChunk, lineIdx, projects, submissions, issued, now, resp,
          reqs, memory, memOp>>

linesVars == <<linesPerChunk, lineIdx>>
\* the state of the backend of app.py
dbVars == <<projects, submissions, issued, now, resp>>
\* the state of the memory service
memVars == <<memory, memOp>>
\* what neither the chunk processor nor a request served in one step changes
sideVars == <<reqs, memVars>>
\* what no step of one run of the pipeline changes
otherVars == <<exitStatus, prev, linesVars, dbVars, sideVars>>
\* the state of the chunk processor
pipelineVars == <<code, fileOk, pc, tree, nodeIdx, chunks, top_level_code,
                  last_node_end, tasks, finished, results, report,
                  exitStatus, prev, linesVars>>

chunkerVars == <<tree, nodeIdx, chunks, top_level_code, last_node_end>>
runVars == <<tasks, finished, results, report>>

----------------------------------------------------------------------------
(* Bounds of the model *)

MaxLines == 4
MaxRunLines == 2
MaxPads == 1
MaxTextLines == 4
MaxWindow == 3
MaxOutcomes == 3
MaxItems == 2
MaxDocuments == 2
MaxFiles == 3
MaxBatch == 2
MaxRequests == 2

----------------------------------------------------------------------------
(* Source text *)

\* Kinds of source line:
\*   blank       empty or whitespace-only line
\*   comment     a comment line
\*   import      a one-line `import x` / `from x import y` statement
\*   importOpen  first line of a parenthesised import, `from x import (`
\*   cont        continuation line of the parenthesised import
\*   stmt        a one-line top-level statement that is no import
\*   deco        a decorator line of the declaration that follows
\*   def         the `def` / `async def` / `class` line of a declaration
\*   body        an indented line of the declaration above
\*   bad         a line that is no valid Python
Kinds == {"blank", "comment", "import", "importOpen", "cont", "stmt",
          "deco", "def", "body", "bad"}

RunKinds == {"blank", "stmt", "def", "bad"}

Min(S) == CHOOSE x \in S : \A y \in S : x <= y
Max(S) == CHOOSE x \in S : \A y \in S : x >= y

\* sequences over S of length 0..n
SeqsUpTo(S, n) == UNION {[1..k -> S] : k \in 0..n}

\* code_string.splitlines()[a:b] as the line numbers a+1..b (Python slices
\* clamp to the length of the list)
Slice(c, a, b) ==
    LET hi == IF b < Len(c) THEN b ELSE Len(c)
    IN  [i \in 1..(IF hi > a THEN hi - a ELSE 0) |-> a + i]

\* str.strip() of a text: leading and trailing blank lines go
Strip(c, t) ==
    LET nb == {i \in 1..Len(t) : c[t[i]] # "blank"}
    IN  IF nb = {} THEN << >> ELSE SubSeq(t, Min(nb), Max(nb))

\* line.strip().startswith(('import ', 'from '))
StartsWithImport(c, n) == c[n] \in {"import", "importOpen"}

ImportLines(c, t) == SelectSeq(t, LAMBDA n : StartsWithImport(c, n))

----------------------------------------------------------------------------
(* ast.parse *)

\* the nearest line before / after line i that is neither blank nor comment
\* (0 / Len(c)+1 when there is none)
PrevCode(c, i) ==
    LET S == {j \in 1..(i-1) : c[j] \notin {"blank", "comment"}}
    IN  IF S = {} THEN 0 ELSE Max(S)

NextCode(c, i) ==
    LET S == {j \in (i+1)..Len(c) : c[j] \notin {"blank", "comment"}}
    IN  IF S = {} THEN Len(c) + 1 ELSE Min(S)

\* ast.parse accepts the text: no invalid line, every continuation line
\* follows its opening line, every decorator is followed by its declaration,
\* every indented line belongs to a declaration (blank and comment lines may
\* lie in between)
LineOk(c, i) ==
    /\ c[i] # "bad"
    /\ c[i] = "cont" => PrevCode(c, i) > 0
                         /\ c[PrevCode(c, i)] \in {"importOpen", "cont"}
    /\ c[i] = "importOpen" => NextCode(c, i) <= Len(c)
                               /\ c[NextCode(c, i)] = "cont"
    /\ c[i] = "deco" => NextCode(c, i) <= Len(c)
                         /\ c[NextCode(c, i)] \in {"deco", "def"}
    /\ c[i] = "body" => PrevCode(c, i) > 0
                         /\ c[PrevCode(c, i)] \in {"def", "body"}

Valid(c) == {i \in 1..Len(c) : ~LineOk(c, i)} = {}

\* last line of the statement that starts at line i: a declaration ends with
\* its last indented line, a parenthesised import with its last continuation
EndOf(c, i) ==
    LET follow == IF c[i] = "def" THEN "body" ELSE "cont"
        stop == {j \in (i+1)..(Len(c)+1) :
                    j = Len(c) + 1 \/ c[j] \notin {follow, "blank", "comment"}}
        last == {j \in i..(Min(stop) - 1) : j = i \/ c[j] = follow}
    IN  IF c[i] \in {"def", "importOpen"} THEN Max(last) ELSE i

\* tree.body: the top-level statements in source order.  node.lineno of a
\* decorated declaration is the line of its `def`, not of the decorator.
NodeType(k) ==
    IF k = "def" THEN "FunctionDef"
    ELSE IF k \in {"import", "importOpen"} THEN "Import" ELSE "Other"

RECURSIVE ParseFrom(_, _)
ParseFrom(c, i) ==
    LET starts == {j \in i..Len(c) : c[j] \in {"def", "import", "importOpen", "stmt"}}
    IN  IF starts = {} THEN << >>
        ELSE LET rest[j \in starts] ==
                     <<[type |-> NodeType(c[j]), lineno |-> j,
                        end_lineno |-> EndOf(c, j)]>> \o ParseFrom(c, EndOf(c, j) + 1)
             IN  rest[Min(starts)]

ParseBody(c) == ParseFrom(c, 1)

\* ast.get_source_segment(code_string, node)
SourceSegment(c, node) == Slice(c, node.lineno - 1, node.end_lineno)

----------------------------------------------------------------------------
(* chunk_code_by_lines *)

DefaultLinesPerChunk == 200

chunk_code_by_lines(c, lines_per_chunk) ==
    LET n == (Len(c) + lines_per_chunk - 1) \div lines_per_chunk
    IN  [j \in 1..n |-> Slice(c, (j-1) * lines_per_chunk, j * lines_per_chunk)]

\* InRange that takes whole windows only
InRangeWholeWindow(i, n, k) == i + k <= n

\* `for i in range(0, len(lines), lines_per_chunk)` has a next i
InRange(i, n, k) == IF k > 0 THEN i < n ELSE i > n

\* chunk_code_by_lines is called: lines 101-103 up to the creation of the
\* range, which raises ValueError for a step of 0
LinesCall ==
    /\ pc = "lines_call"
    /\ chunks' = << >>
    /\ lineIdx' = 0
    /\ pc' = IF linesPerChunk = 0 THEN "lines_raised" ELSE "lines_loop"
    /\ UNCHANGED <<code, fileOk, tree, nodeIdx, top_level_code, last_node_end,
                   tasks, finished, results, report, exitStatus, prev,
                   linesPerChunk, dbVars, sideVars>>

\* LinesStep whose window is one line short
LinesStepShort ==
    /\ pc = "lines_loop"
    /\ InRange(lineIdx, Len(code), linesPerChunk)
    /\ chunks' = Append(chunks, Slice(code, lineIdx, lineIdx + linesPerChunk - 1))
    /\ lineIdx' = lineIdx + linesPerChunk
    /\ UNCHANGED <<code, fileOk, pc, tree, nodeIdx, top_level_code,
                   last_node_end, tasks, finished, results, report, exitStatus,
                   prev, linesPerChunk, dbVars, sideVars>>

\* one iteration of the loop (lines 103-105)
LinesStep ==
    /\ pc = "lines_loop"
    /\ InRange(lineIdx, Len(code), linesPerChunk)
    /\ chunks' = Append(chunks, Slice(code, lineIdx, lineIdx + linesPerChunk))
    /\ lineIdx' = lineIdx + linesPerChunk
    /\ UNCHANGED <<code, fileOk, pc, tree, nodeIdx, top_level_code,
                   last_node_end, tasks, finished, results, report, exitStatus,
                   prev, linesPerChunk, dbVars, sideVars>>

\* the loop is over: return chunks (line 106)
LinesReturn ==
    /\ pc = "lines_loop"
    /\ ~InRange(lineIdx, Len(code), linesPerChunk)
    /\ pc' = "lines_done"
    /\ UNCHANGED <<code, fileOk, tree, nodeIdx, chunks, top_level_code,
                   last_node_end, tasks, finished, results, report, exitStatus,
                   prev, linesVars, dbVars, sideVars>>

LinesNext == LinesCall \/ LinesStep \/ LinesReturn

----------------------------------------------------------------------------
(* chunk_code_by_ast *)

\* tree = ast.parse(code_string) returns
ParseOk ==
    /\ pc = "parse"
    /\ Valid(code)
    /\ tree' = ParseBody(code)
    /\ nodeIdx' = 1
    /\ chunks' = << >>
    /\ top_level_code' = << >>
    /\ last_node_end' = 0
    /\ pc' = "walk"
    /\ UNCHANGED <<code, fileOk, runVars>>
    /\ UNCHANGED otherVars

\* ast.parse raises SyntaxError: control goes to the except clause
ParseFail ==
    /\ pc = "parse"
    /\ ~Valid(code)
    /\ pc' = "except"
    /\ UNCHANGED <<code, fileOk, chunkerVars, runVars>>
    /\ UNCHANGED otherVars

\* the top-level code in front of a declaration (lines 44-60): what the
\* chunk list and the pending imports are after it
LeftoverStep(c, node, chs, tlc, lne) ==
    LET node_start_line == node.lineno - 1
        top_level_chunk == Strip(c, Slice(c, lne, node_start_line))
        import_lines == ImportLines(c, top_level_chunk)
    IN  IF node_start_line > lne /\ top_level_chunk # << >>
        THEN IF import_lines # << >>
             THEN [chunks |-> chs, top_level_code |-> tlc \o import_lines]
             ELSE [chunks |-> Append(chs, tlc \o top_level_chunk),
                   top_level_code |-> << >>]
        ELSE [chunks |-> chs, top_level_code |-> tlc]

\* DeclStep that leaves the pending imports in place
DeclStepKeepImports(c, node, st) ==
    LET imports == st.top_level_code
        chunk_str == SourceSegment(c, node)
    IN  IF chunk_str # << >>
        THEN [chunks |-> Append(st.chunks, imports \o chunk_str),
              top_level_code |-> st.top_level_code]
        ELSE st

\* the declaration itself (lines 62-72)
DeclStep(c, node, st) ==
    LET imports == st.top_level_code
        chunk_str == SourceSegment(c, node)
    IN  IF chunk_str # << >>
        THEN [chunks |-> Append(st.chunks, imports \o chunk_str),
              top_level_code |-> << >>]
        ELSE st

\* one iteration of `for node in tree.body`
WalkNode ==
    /\ pc = "walk"
    /\ nodeIdx <= Len(tree)
    /\ LET node == tree[nodeIdx]
       IN  IF node.type = "FunctionDef"
           THEN LET st == DeclStep(code, node,
                             LeftoverStep(code, node, chunks, top_level_code,
                                          last_node_end))
                IN  /\ chunks' = st.chunks
                    /\ top_level_code' = st.top_level_code
                    /\ last_node_end' = node.end_lineno
           ELSE UNCHANGED <<chunks, top_level_code, last_node_end>>
    /\ nodeIdx' = nodeIdx + 1
    /\ UNCHANGED <<code, fileOk, pc, tree, runVars>>
    /\ UNCHANGED otherVars

\* WithRemaining that puts the remaining code in front of the other chunks
WithRemainingFirst(c, chs, tlc, lne) ==
    LET remaining_code == Strip(c, Slice(c, lne, Len(c)))
    IN  IF remaining_code # << >>
        THEN <<tlc \o remaining_code>> \o chs
        ELSE chs

\* the remaining top-level code after the last declaration (lines 79-84)
WithRemaining(c, chs, tlc, lne) ==
    LET remaining_code == Strip(c, Slice(c, lne, Len(c)))
    IN  IF remaining_code # << >>
        THEN Append(chs, tlc \o remaining_code)
        ELSE chs

\* the loop is over: lines 79-90
Finish ==
    /\ pc = "walk"
    /\ nodeIdx > Len(tree)
    /\ LET chs == WithRemaining(code, chunks, top_level_code, last_node_end)
       IN  /\ chunks' = chs
           /\ pc' = IF chs = << >> THEN "except" ELSE "chunked"
    /\ UNCHANGED <<code, fileOk, tree, nodeIdx, top_level_code, last_node_end,
                   runVars>>
    /\ UNCHANGED otherVars

\* Fallback with a window of 100 lines
FallbackHalfWindow ==
    /\ pc = "except"
    /\ chunks' = chunk_code_by_lines(code, 100)
    /\ pc' = "chunked"
    /\ UNCHANGED <<code, fileOk, tree, nodeIdx, top_level_code, last_node_end,
                   runVars>>
    /\ UNCHANGED otherVars

\* except (SyntaxError, ValueError): return chunk_code_by_lines(code_string, 200)
Fallback ==
    /\ pc = "except"
    /\ chunks' = chunk_code_by_lines(code, 200)
    /\ pc' = "chunked"
    /\ UNCHANGED <<code, fileOk, tree, nodeIdx, top_level_code, last_node_end,
                   runVars>>
    /\ UNCHANGED otherVars

ChunkNext == ParseOk \/ ParseFail \/ WalkNode \/ Finish \/ Fallback

----------------------------------------------------------------------------
(* analyze_chunk and the AnalysisClient *)

\* what client.chat.completions.create can give: an analysis text, or an
\* exception (OpenAIError, or any other Exception) with a message.  A text is
\* a tuple of its parts; the client may return any text, also one that reads
\* like a diagnostic.
ClientTexts == {<<"No issues found in this chunk.">>,
                <<"Error: Could not analyze chunk. ", "boom">>}
ClientErrors == {"OpenAIError", "Exception"}
ErrorMessage == "boom"

NoResult == [chunk |-> 0, analysis |-> << >>]

\* SYSTEM_PROMPT (lines 19-25)
SystemPrompt == "You are 'SecureByte', ..."

\* a task: its state, how often it has called the client and with which
\* messages (system, user), what the client gave, and what the task returned
NewTask == [st |-> "created", calls |-> 0, sent |-> << >>, client |-> "none",
            payload |-> << >>, result |-> NoResult]

\* f"Error: Could not analyze chunk. {e}" / f"Error: An unexpected error occurred. {e}"
Diagnostic(e, msg) ==
    IF e = "OpenAIError"
    THEN <<"Error: Could not analyze chunk. ", msg>>
    ELSE <<"Error: An unexpected error occurred. ", msg>>

\* chunk_content.strip().splitlines()[0] raises IndexError
FirstLineFails(c, chunk) == Strip(c, chunk) = << >>

\* TaskStart behind a semaphore of one: a task starts only when no client
\* call is in flight
TaskStartOneAtATime(i) ==
    /\ pc = "gather"
    /\ i \in 1..Len(tasks)
    /\ tasks[i].st = "created"
    /\ \A j \in 1..Len(tasks) : tasks[j].st # "inflight"
    /\ \A j \in 1..(i-1) : tasks[j].st # "created"
    /\ IF FirstLineFails(code, chunks[i])
       THEN /\ tasks' = [tasks EXCEPT ![i].st = "raised"]
            /\ finished' = Append(finished, i)
       ELSE /\ tasks' = [tasks EXCEPT ![i].st = "inflight",
                                     ![i].calls = @ + 1,
                                     ![i].sent = <<SystemPrompt, chunks[i]>>]
            /\ UNCHANGED finished
    /\ UNCHANGED <<code, fileOk, pc, chunkerVars, results, report>>
    /\ UNCHANGED otherVars

\* the task's first step (lines 115-119): up to the await of the client call.
\* The event loop starts the tasks in the order gather() got them.
TaskStart(i) ==
    /\ pc = "gather"
    /\ i \in 1..Len(tasks)
    /\ tasks[i].st = "created"
    /\ \A j \in 1..(i-1) : tasks[j].st # "created"
    /\ IF FirstLineFails(code, chunks[i])
       THEN /\ tasks' = [tasks EXCEPT ![i].st = "raised"]
            /\ finished' = Append(finished, i)
       ELSE /\ tasks' = [tasks EXCEPT ![i].st = "inflight",
                                     ![i].calls = @ + 1,
                                     ![i].sent = <<SystemPrompt, chunks[i]>>]
            /\ UNCHANGED finished
    /\ UNCHANGED <<code, fileOk, pc, chunkerVars, results, report>>
    /\ UNCHANGED otherVars

\* the client call returns (lines 127-128)
ClientReturn(i, t) ==
    /\ pc \in {"gather", "raised"}
    /\ i \in 1..Len(tasks)
    /\ tasks[i].st = "inflight"
    /\ tasks' = [tasks EXCEPT ![i].st = "done",
                              ![i].client = "ok",
                              ![i].payload = t,
                              ![i].result = [chunk |-> i, analysis |-> t]]
    /\ finished' = Append(finished, i)
    /\ UNCHANGED <<code, fileOk, pc, chunkerVars, results, report>>
    /\ UNCHANGED otherVars

\* ClientRaise without its except clauses: the exception leaves analyze_chunk
ClientRaiseUncaught(i, e) ==
    /\ pc \in {"gather", "raised"}
    /\ i \in 1..Len(tasks)
    /\ tasks[i].st = "inflight"
    /\ tasks' = [tasks EXCEPT ![i].st = "raised",
                              ![i].client = e,
                              ![i].payload = <<ErrorMessage>>]
    /\ finished' = Append(finished, i)
    /\ UNCHANGED <<code, fileOk, pc, chunkerVars, results, report>>
    /\ UNCHANGED otherVars

\* the client call raises (lines 130-137)
ClientRaise(i, e) ==
    /\ pc \in {"gather", "raised"}
    /\ i \in 1..Len(tasks)
    /\ tasks[i].st = "inflight"
    /\ tasks' = [tasks EXCEPT ![i].st = "done",
                              ![i].client = e,
                              ![i].payload = <<ErrorMessage>>,
                              ![i].result = [chunk |-> i,
                                             analysis |-> Diagnostic(e, ErrorMessage)]]
    /\ finished' = Append(finished, i)
    /\ UNCHANGED <<code, fileOk, pc, chunkerVars, results, report>>
    /\ UNCHANGED otherVars

----------------------------------------------------------------------------
(* main_analysis_function *)

\* open() and read() succeed (lines 145-148)
ReadOk ==
    /\ pc = "read"
    /\ fileOk
    /\ pc' = "parse"
    /\ UNCHANGED <<code, fileOk, chunkerVars, runVars>>
    /\ UNCHANGED otherVars

\* ReadFail without its return: the function goes on to the chunking
ReadFailNoReturn ==
    /\ pc = "read"
    /\ ~fileOk
    /\ pc' = "parse"
    /\ UNCHANGED <<code, fileOk, chunkerVars, runVars>>
    /\ UNCHANGED otherVars

\* open() or read() raises: print the error and return (lines 149-154)
ReadFail ==
    /\ pc = "read"
    /\ ~fileOk
    /\ pc' = "readfail"
    /\ UNCHANGED <<code, fileOk, chunkerVars, runVars>>
    /\ UNCHANGED otherVars

\* tasks = [analyze_chunk(chunk, i + 1) ...]; asyncio.gather(*tasks)
Dispatch ==
    /\ pc = "chunked"
    /\ tasks' = [i \in 1..Len(chunks) |-> NewTask]
    /\ pc' = "gather"
    /\ UNCHANGED <<code, fileOk, chunkerVars, finished, results, report>>
    /\ UNCHANGED otherVars

\* results.sort(key=lambda x: x["chunk"]): a stable insertion sort
RECURSIVE Insert(_, _)
Insert(sorted, x) ==
    IF sorted = << >> THEN <<x>>
    ELSE IF sorted[Len(sorted)].chunk <= x.chunk
         THEN Append(sorted, x)
         ELSE Append(Insert(SubSeq(sorted, 1, Len(sorted) - 1), x),
                     sorted[Len(sorted)])

RECURSIVE SortFrom(_, _)
SortFrom(sorted, rest) ==
    IF rest = << >> THEN sorted
    ELSE SortFrom(Insert(sorted, Head(rest)), Tail(rest))

\* SortByChunk with reverse=True
SortByChunkDesc(rs) ==
    LET up == SortFrom(<< >>, rs)
    IN  [i \in 1..Len(up) |-> up[Len(up) + 1 - i]]

SortByChunk(rs) == SortFrom(<< >>, rs)

\* GatherResults that leaves out the outcomes of failed client calls
GatherResultsDropFailed(ts) ==
    LET ok == SelectSeq(ts, LAMBDA t : t.client = "ok")
    IN  [i \in 1..Len(ok) |-> ok[i].result]

\* the results of gather, in the order of its arguments
GatherResults(ts) == [i \in 1..Len(ts) |-> ts[i].result]

\* the printed sections (lines 188-191)
PrintReport(rs) == [i \in 1..Len(rs) |-> [header |-> rs[i].chunk,
                                          body |-> rs[i].analysis]]

\* GatherReturn that takes the results as the tasks finished (as_completed)
\* and prints them unsorted
GatherReturnAsCompleted ==
    /\ pc = "gather"
    /\ \A i \in 1..Len(tasks) : tasks[i].st = "done"
    /\ results' = [i \in 1..Len(finished) |-> tasks[finished[i]].result]
    /\ report' = PrintReport(results')
    /\ pc' = "done"
    /\ UNCHANGED <<code, fileOk, chunkerVars, tasks, finished>>
    /\ UNCHANGED otherVars

\* every task has returned: gather returns, the results are sorted and the
\* report is printed (lines 181-191)
GatherReturn ==
    /\ pc = "gather"
    /\ \A i \in 1..Len(tasks) : tasks[i].st = "done"
    /\ results' = SortByChunk(GatherResults(tasks))
    /\ report' = PrintReport(results')
    /\ pc' = "done"
    /\ UNCHANGED <<code, fileOk, chunkerVars, tasks, finished>>
    /\ UNCHANGED otherVars

\* the aggregation step on its own (lines 185-191): whatever collection of
\* outcomes it is given is sorted by chunk number and printed
Aggregate ==
    /\ pc = "aggregate"
    /\ results' = SortByChunk(results)
    /\ report' = PrintReport(results')
    /\ pc' = "aggregated"
    /\ UNCHANGED <<code, fileOk, chunkerVars, tasks, finished>>
    /\ UNCHANGED otherVars

\* a task has raised: gather (return_exceptions is not set) hands the
\* exception to its awaiter as soon as the loop runs its callback, by when
\* every task has had its first step; main_analysis_function is left by the
\* exception
GatherRaise ==
    /\ pc = "gather"
    /\ \E i \in 1..Len(tasks) : tasks[i].st = "raised"
    /\ \A i \in 1..Len(tasks) : tasks[i].st # "created"
    /\ pc' = "raised"
    /\ UNCHANGED <<code, fileOk, chunkerVars, runVars>>
    /\ UNCHANGED otherVars

\* asyncio.run ends: it cancels the tasks that are still pending and
\* re-raises the exception
Shutdown ==
    /\ pc = "raised"
    /\ tasks' = [i \in 1..Len(tasks) |->
                    IF tasks[i].st = "inflight"
                    THEN [tasks[i] EXCEPT !.st = "cancelled"]
                    ELSE tasks[i]]
    /\ pc' = "aborted"
    /\ UNCHANGED <<code, fileOk, chunkerVars, finished, results, report>>
    /\ UNCHANGED otherVars

\* the exit status asyncio.run leaves the process with
ExitStatusOf(p) == IF p = "aborted" THEN 1 ELSE 0

\* asyncio.run(main_analysis_function(args.file)) is over and the script
\* ends: status 0 when the function returned, 1 (a traceback) when it raised
ProcessExit ==
    /\ pc \in {"done", "readfail", "aborted"}
    /\ exitStatus = -1
    /\ exitStatus' = ExitStatusOf(pc)
    /\ UNCHANGED <<code, fileOk, pc, chunkerVars, runVars, prev, linesVars,
                   dbVars, sideVars>>

----------------------------------------------------------------------------
(* app.py: projects and submissions of one user *)

\* the ids uuid.uuid4() can give; ProjectKeys is the order of the keys in
\* the object the database returns
ProjectKeys == <<"p1", "p2">>
ProjectIds == {ProjectKeys[i] : i \in 1..Len(ProjectKeys)}
SubmissionKeys == <<"s1", "s2">>
SubmissionIds == {SubmissionKeys[i] : i \in 1..Len(SubmissionKeys)}

\* request inputs; "" stands for a missing or empty field
ProjectNames == {"apple", "Banana"}
SaveDemoNames == {"save-endpoint-demo"}
Filenames == {"a.py"}
Codes == {"print(1)"}
SavedCodes == {"print(2)"}
SortFields == {"project_name", "updated_at"}
Orders == {"asc", "desc"}

\* the items of a save_project payload: objects with fileid, filename and
\* code, and one value that is not an object
NotAnObject == [type |-> "other", fileid |-> "", filename |-> "", code |-> ""]
SaveItems ==
    [type : {"dict"}, fileid : SubmissionIds \cup {""}, filename : Filenames,
     code : SavedCodes] \cup {NotAnObject}

\* the instants at which requests arrive
Instants == {0, 1}

\* the payloads of save_project: at most MaxItems items, no item twice
SavePayloads ==
    {data \in SeqsUpTo(SaveItems, MaxItems) :
        \A i, j \in 1..Len(data) : i # j => data[i] # data[j]}

\* get_timestamp() (lines 185-186)
get_timestamp == now

NoQuery == [sort_by |-> "", order |-> ""]
NoSave == [project_id |-> "", isList |-> FALSE, data |-> << >>]

\* the last request and its response: the handler, the query string of a
\* get_projects request, the payload of a save_project request, the status
\* code and the parts of the response body the model keeps
Response(op, status) ==
    [op |-> op, status |-> status, query |-> NoQuery, save |-> NoSave,
     body |-> << >>, total_failed |-> 0, total_files |-> 0]

\* the response to a save_project request
SaveResponse(project_id, isList, data, status) ==
    [Response("save_project", status) EXCEPT
        !.save = [project_id |-> project_id, isList |-> isList, data |-> data]]

\* how many times id s stands in the list ids
Times(ids, s) == Cardinality({i \in 1..Len(ids) : ids[i] = s})

\* ref.delete() of one key
Without(store, key) == [k \in (DOMAIN store) \ {key} |-> store[k]]

\* ref.set(data) of one key
With(store, key, doc) ==
    [k \in (DOMAIN store) \cup {key} |-> IF k = key THEN doc ELSE store[k]]

\* memory_service.py: the collections of _initialize_collections
CollectionNames == {"code", "security", "logic", "user", "project"}

\* the last call of the memory service: its name, its user_id and the number
\* of ids it handed to collection.delete; here, no call yet
NoCall == [op |-> "none", user_id |-> << >>, deleted |-> 0]

\* the database and the collections before any request
InitStore ==
    /\ projects = << >>
    /\ submissions = << >>
    /\ issued = {}
    /\ now = 0
    /\ resp = Response("none", 0)
    /\ reqs = << >>
    /\ memory = [c \in CollectionNames |-> << >>]
    /\ memOp = NoCall

\* time passes between requests
Tick ==
    /\ now + 1 \in Instants
    /\ now' = now + 1
    /\ UNCHANGED <<projects, submissions, issued, resp>>
    /\ UNCHANGED pipelineVars
    /\ UNCHANGED sideVars

\* create_project (lines 190-218)
CreateProject(name, id) ==
    /\ IF name = ""
       THEN /\ resp' = Response("create_project", 400)
            /\ UNCHANGED <<projects, issued>>
       ELSE /\ id \in ProjectIds \ issued
            /\ projects' = With(projects, id,
                                [projectid |-> id, project_name |-> name,
                                 fileids |-> << >>,
                                 updated_at |-> get_timestamp])
            /\ issued' = issued \cup {id}
            /\ resp' = Response("create_project", 201)
    /\ UNCHANGED <<submissions, now>>
    /\ UNCHANGED pipelineVars
    /\ UNCHANGED sideVars

\* get_projects (lines 220-229): the stored projects as a list, in the order
\* of the object the database returned (of each project the list keeps the
\* name); the query string is not read
ProjectList(ps) ==
    LET keys == SelectSeq(ProjectKeys, LAMBDA k : k \in DOMAIN ps)
    IN  [i \in 1..Len(keys) |-> ps[keys[i]].project_name]

GetProjects(sort_by, order) ==
    /\ resp' = [Response("get_projects", 200) EXCEPT
                    !.query = [sort_by |-> sort_by, order |-> order],
                    !.body = ProjectList(projects)]
    /\ UNCHANGED <<projects, submissions, issued, now>>
    /\ UNCHANGED pipelineVars
    /\ UNCHANGED sideVars

\* delete_project (lines 258-280)
DeleteProject(project_id) ==
    /\ IF project_id \notin DOMAIN projects
       THEN /\ resp' = Response("delete_project", 404)
            /\ UNCHANGED <<projects, submissions>>
       ELSE /\ submissions' =
                   [k \in {j \in DOMAIN submissions :
                              submissions[j].projectid # project_id}
                       |-> submissions[k]]
            /\ projects' = Without(projects, project_id)
            /\ resp' = Response("delete_project", 200)
    /\ UNCHANGED <<issued, now>>
    /\ UNCHANGED pipelineVars
    /\ UNCHANGED sideVars

\* save_project, first pass (lines 300-328): an item is staged when it is an
\* object with a fileid whose submission is stored
ItemValid(item, subs) ==
    /\ item.type = "dict"
    /\ item.fileid # ""
    /\ item.fileid \in DOMAIN subs

failed_files(data, subs) == SelectSeq(data, LAMBDA item : ~ItemValid(item, subs))

candidates(data, subs) == SelectSeq(data, LAMBDA item : ItemValid(item, subs))

\* save_project, second pass (lines 341-342): ref.update(...) per candidate
RECURSIVE ApplyUpdates(_, _, _)
ApplyUpdates(subs, cands, t) ==
    IF cands = << >> THEN subs
    ELSE ApplyUpdates(
            [subs EXCEPT ![Head(cands).fileid] =
                 [@ EXCEPT !.filename = Head(cands).filename,
                           !.code = Head(cands).code,
                           !.updated_at = t]],
            Tail(cands), t)

\* save_project that applies the staged updates whatever the first pass found
SaveProjectPartial(project_id, isList, data) ==
    /\ IF ~isList
       THEN /\ resp' = SaveResponse(project_id, isList, data, 400)
            /\ UNCHANGED <<projects, submissions>>
       ELSE IF project_id \notin DOMAIN projects
       THEN /\ resp' = SaveResponse(project_id, isList, data, 404)
            /\ UNCHANGED <<projects, submissions>>
       ELSE /\ submissions' = ApplyUpdates(submissions,
                                           candidates(data, submissions),
                                           get_timestamp)
            /\ IF failed_files(data, submissions) # << >>
               THEN /\ resp' = [SaveResponse(project_id, isList, data, 400) EXCEPT
                          !.total_failed = Len(failed_files(data, submissions)),
                          !.total_files = Len(data)]
                    /\ UNCHANGED projects
               ELSE /\ projects' = [projects EXCEPT
                          ![project_id].updated_at = get_timestamp]
                    /\ resp' = SaveResponse(project_id, isList, data, 200)
    /\ UNCHANGED <<issued, now>>
    /\ UNCHANGED pipelineVars
    /\ UNCHANGED sideVars

\* save_project (lines 282-347); isList tells whether the body is a JSON
\* array
SaveProject(project_id, isList, data) ==
    /\ IF ~isList
       THEN /\ resp' = SaveResponse(project_id, isList, data, 400)
            /\ UNCHANGED <<projects, submissions>>
       ELSE IF project_id \notin DOMAIN projects
       THEN /\ resp' = SaveResponse(project_id, isList, data, 404)
            /\ UNCHANGED <<projects, submissions>>
       ELSE IF failed_files(data, submissions) # << >>
       THEN /\ resp' = [SaveResponse(project_id, isList, data, 400) EXCEPT
                          !.total_failed = Len(failed_files(data, submissions)),
                          !.total_files = Len(data)]
            /\ UNCHANGED <<projects, submissions>>
       ELSE /\ submissions' = ApplyUpdates(submissions,
                                           candidates(data, submissions),
                                           get_timestamp)
            /\ projects' = [projects EXCEPT
                               ![project_id].updated_at = get_timestamp]
            /\ resp' = SaveResponse(project_id, isList, data, 200)
    /\ UNCHANGED <<issued, now>>
    /\ UNCHANGED pipelineVars
    /\ UNCHANGED sideVars

\* create_submission (lines 352-397)
CreateSubmission(project_id, filename, code_text, id) ==
    /\ IF filename = ""
       THEN /\ resp' = Response("create_submission", 400)
            /\ UNCHANGED <<projects, submissions, issued>>
       ELSE IF project_id \notin DOMAIN projects
       THEN /\ resp' = Response("create_submission", 404)
            /\ UNCHANGED <<projects, submissions, issued>>
       ELSE /\ id \notin issued
            /\ submissions' = With(submissions, id,
                                   [id |-> id, projectid |-> project_id,
                                    filename |-> filename, code |-> code_text,
                                    updated_at |-> get_timestamp])
            /\ projects' = [projects EXCEPT
                               ![project_id].fileids = Append(@, id),
                               ![project_id].updated_at = get_timestamp]
            /\ issued' = issued \cup {id}
            /\ resp' = Response("create_submission", 201)
    /\ UNCHANGED now
    /\ UNCHANGED pipelineVars
    /\ UNCHANGED sideVars

\* delete_submission that leaves the fileids of the project as they are
DeleteSubmissionKeepIds(submission_id) ==
    /\ IF submission_id \notin DOMAIN submissions
       THEN /\ resp' = Response("delete_submission", 404)
            /\ UNCHANGED <<projects, submissions>>
       ELSE LET project_id == submissions[submission_id].projectid
            IN  /\ UNCHANGED projects
                /\ submissions' = Without(submissions, submission_id)
                /\ resp' = Response("delete_submission", 200)
    /\ UNCHANGED <<issued, now>>
    /\ UNCHANGED pipelineVars
    /\ UNCHANGED sideVars


\* delete_submission (lines 464-492)
DeleteSubmission(submission_id) ==
    /\ IF submission_id \notin DOMAIN submissions
       THEN /\ resp' = Response("delete_submission", 404)
            /\ UNCHANGED <<projects, submissions>>
       ELSE LET project_id == submissions[submission_id].projectid
            IN  /\ IF /\ project_id \in DOMAIN projects
                      /\ \E i \in 1..Len(projects[project_id].fileids) :
                            projects[project_id].fileids[i] = submission_id
                   THEN projects' = [projects EXCEPT
                            ![project_id].fileids =
                                SelectSeq(@, LAMBDA f : f # submission_id),
                            ![project_id].updated_at = get_timestamp]
                   ELSE UNCHANGED projects
                /\ submissions' = Without(submissions, submission_id)
                /\ resp' = Response("delete_submission", 200)
    /\ UNCHANGED <<issued, now>>
    /\ UNCHANGED pipelineVars
    /\ UNCHANGED sideVars

\* create_submissions_batch (lines 1450-1512)
AllFileKeys == <<"s1", "s2", "s3", "s4", "s5">>
FileKeys == SubSeq(AllFileKeys, 1, MaxFiles)
FileIds == {FileKeys[i] : i \in 1..Len(FileKeys)}
BatchPaths == {"a.py", "./b.py", "a/../../x", ""}
BatchFiles == [path : BatchPaths, content : Codes]
Batches == SeqsUpTo(BatchFiles, MaxBatch)

\* normalize_relative_path (lines 1437-1448): leading dots and slashes are
\* stripped, a path that leaves the root raises ValueError, written ""
normalize_relative_path(path) ==
    CASE path = "a.py" -> "a.py"
      [] path = "./b.py" -> "b.py"
      [] OTHER -> ""

\* len(content.encode('utf-8'))
size_bytes(content) == IF content = "print(1)" THEN 8 ELSE 0

\* the files of the request that the loop does not skip (lines 1474-1490)
accepted(files, max_bytes) ==
    SelectSeq(files, LAMBDA f :
        /\ f.path # ""
        /\ normalize_relative_path(f.path) # ""
        /\ ~(max_bytes > 0 /\ size_bytes(f.content) > max_bytes))

\* the files the loop stores: it stops once max_files are created (line 1508)
created(files, max_files, max_bytes) ==
    LET acc == accepted(files, max_bytes)
    IN  IF max_files > 0 /\ Len(acc) > max_files
        THEN SubSeq(acc, 1, max_files) ELSE acc

\* the keys uuid.uuid4() gives to one request, in the order of the keys
FreshIdSeqs(keys) ==
    LET free == SelectSeq(keys, LAMBDA k : k \notin issued)
    IN  {SubSeq(free, 1, n) : n \in 0..Len(free)}

\* max_files and max_bytes are 0 when the body does not give them
CreateSubmissionsBatch(project_id, files, max_files, max_bytes, ids) ==
    /\ IF files = << >>
       THEN /\ resp' = Response("create_submissions_batch", 400)
            /\ UNCHANGED <<projects, submissions, issued>>
       ELSE IF project_id \notin DOMAIN projects
       THEN /\ resp' = Response("create_submissions_batch", 404)
            /\ UNCHANGED <<projects, submissions, issued>>
       ELSE LET made == created(files, max_files, max_bytes)
                new == {ids[i] : i \in 1..Len(ids)}
            IN  /\ Len(ids) = Len(made)
                /\ submissions' =
                      [k \in DOMAIN submissions \cup new |->
                          IF k \in new
                          THEN LET i == CHOOSE j \in 1..Len(ids) : ids[j] = k
                               IN  [id |-> k, projectid |-> project_id,
                                    filename |-> normalize_relative_path(made[i].path),
                                    code |-> made[i].content,
                                    updated_at |-> get_timestamp]
                          ELSE submissions[k]]
                /\ projects' = [projects EXCEPT
                                   ![project_id].fileids = @ \o ids,
                                   ![project_id].updated_at = get_timestamp]
                /\ issued' = issued \cup new
                /\ resp' = [Response("create_submissions_batch", 201) EXCEPT
                               !.body = ids]
    /\ UNCHANGED now
    /\ UNCHANGED pipelineVars
    /\ UNCHANGED sideVars


----------------------------------------------------------------------------
(* app.py: the handlers step by step, one database call per step, for
   requests that are served at the same time *)

\* ref.update(...) of a submission (manual_test_save_project.py, lines
\* 38-43): the key is created when it is not stored, with the fields of the
\* update only
UpdateSubmission(subs, key, filename, code_text, t) ==
    IF key \in DOMAIN subs
    THEN [subs EXCEPT ![key] = [@ EXCEPT !.filename = filename,
                                         !.code = code_text,
                                         !.updated_at = t]]
    ELSE With(subs, key, [id |-> "", projectid |-> "", filename |-> filename,
                          code |-> code_text, updated_at |-> t])

\* project_ref.update({'fileids': ..., 'updated_at': ...})
UpdateFileids(ps, key, fileids, t) ==
    IF key \in DOMAIN ps
    THEN [ps EXCEPT ![key] = [@ EXCEPT !.fileids = fileids, !.updated_at = t]]
    ELSE With(ps, key, [projectid |-> "", project_name |-> "",
                        fileids |-> fileids, updated_at |-> t])

\* fileids.remove(submission_id): the first occurrence goes
RemoveFirst(ids, s) ==
    LET at == Min({i \in 1..Len(ids) : ids[i] = s})
    IN  SubSeq(ids, 1, at - 1) \o SubSeq(ids, at + 1, Len(ids))

\* a request that has arrived: the handler, its arguments, its position and
\* its local variables
NewRequest(op, project_id, submission_id, filename, code_text, data) ==
    [op |-> op, pc |-> "start", project_id |-> project_id,
     submission_id |-> submission_id, filename |-> filename,
     code |-> code_text, data |-> data, fileids |-> << >>,
     candidates |-> << >>, failed |-> 0, i |-> 0]

\* the payloads of the concurrent save_project requests: lists of objects
\* with a fileid
RequestPayloads ==
    {data \in SavePayloads :
        /\ data # << >>
        /\ \A i \in 1..Len(data) : data[i].type = "dict" /\ data[i].fileid # ""}

\* a request arrives while fewer than MaxRequests are being served
Arrive ==
    /\ Len(reqs) < MaxRequests
    /\ \E p \in DOMAIN projects :
          \/ \E f \in Filenames, c \in Codes :
                reqs' = Append(reqs, NewRequest("create_submission", p, "", f, c, << >>))
          \/ \E data \in RequestPayloads :
                reqs' = Append(reqs, NewRequest("save_project", p, "", "", "", data))
          \/ \E sid \in SubmissionIds :
                reqs' = Append(reqs, NewRequest("delete_submission", "", sid, "", "", << >>))
    /\ UNCHANGED <<dbVars, memVars>>
    /\ UNCHANGED pipelineVars

\* the handler returns: the request leaves and its response is the last one
Return(r, status) ==
    /\ reqs' = SubSeq(reqs, 1, r - 1) \o SubSeq(reqs, r + 1, Len(reqs))
    /\ resp' = Response(reqs[r].op, status)

\* the handler goes on with its local variables changed
Goto(r, req) == reqs' = [reqs EXCEPT ![r] = req]

\* create_submission, project_ref.get() (lines 362-365)
CsGetProject(r) ==
    /\ reqs[r].op = "create_submission" /\ reqs[r].pc = "start"
    /\ IF reqs[r].project_id \notin DOMAIN projects
       THEN Return(r, 404)
       ELSE /\ Goto(r, [reqs[r] EXCEPT
                           !.pc = "set",
                           !.fileids = projects[reqs[r].project_id].fileids])
            /\ UNCHANGED resp
    /\ UNCHANGED <<projects, submissions, issued, now, memVars>>
    /\ UNCHANGED pipelineVars

\* create_submission, submission_ref.set(submission_data) (lines 368-384)
CsSet(r, id) ==
    /\ reqs[r].op = "create_submission" /\ reqs[r].pc = "set"
    /\ id \notin issued
    /\ submissions' = With(submissions, id,
                           [id |-> id, projectid |-> reqs[r].project_id,
                            filename |-> reqs[r].filename,
                            code |-> reqs[r].code,
                            updated_at |-> get_timestamp])
    /\ issued' = issued \cup {id}
    /\ Goto(r, [reqs[r] EXCEPT !.pc = "update", !.submission_id = id])
    /\ UNCHANGED <<projects, now, resp, memVars>>
    /\ UNCHANGED pipelineVars

\* create_submission, project_ref.update(...) of the list read at line 363
\* with the new id appended (lines 387-397)
CsUpdate(r) ==
    /\ reqs[r].op = "create_submission" /\ reqs[r].pc = "update"
    /\ projects' = UpdateFileids(projects, reqs[r].project_id,
                                 Append(reqs[r].fileids, reqs[r].submission_id),
                                 get_timestamp)
    /\ Return(r, 201)
    /\ UNCHANGED <<submissions, issued, now, memVars>>
    /\ UNCHANGED pipelineVars

\* delete_submission, submission_ref.get() (lines 467-474)
DsGetSubmission(r) ==
    /\ reqs[r].op = "delete_submission" /\ reqs[r].pc = "start"
    /\ IF reqs[r].submission_id \notin DOMAIN submissions
       THEN Return(r, 404)
       ELSE /\ Goto(r, [reqs[r] EXCEPT
                  !.project_id = submissions[reqs[r].submission_id].projectid,
                  !.pc = IF submissions[reqs[r].submission_id].projectid # ""
                         THEN "project" ELSE "delete"])
            /\ UNCHANGED resp
    /\ UNCHANGED <<projects, submissions, issued, now, memVars>>
    /\ UNCHANGED pipelineVars

\* delete_submission, project_ref.get() (lines 478-483)
DsGetProject(r) ==
    /\ reqs[r].op = "delete_submission" /\ reqs[r].pc = "project"
    /\ IF /\ reqs[r].project_id \in DOMAIN projects
          /\ Times(projects[reqs[r].project_id].fileids, reqs[r].submission_id) > 0
       THEN Goto(r, [reqs[r] EXCEPT
                        !.pc = "update",
                        !.fileids = RemoveFirst(projects[reqs[r].project_id].fileids,
                                                reqs[r].submission_id)])
       ELSE Goto(r, [reqs[r] EXCEPT !.pc = "delete"])
    /\ UNCHANGED <<dbVars, memVars>>
    /\ UNCHANGED pipelineVars

\* delete_submission, project_ref.update(...) (lines 484-487)
DsUpdate(r) ==
    /\ reqs[r].op = "delete_submission" /\ reqs[r].pc = "update"
    /\ projects' = UpdateFileids(projects, reqs[r].project_id, reqs[r].fileids,
                                 get_timestamp)
    /\ Goto(r, [reqs[r] EXCEPT !.pc = "delete"])
    /\ UNCHANGED <<submissions, issued, now, resp, memVars>>
    /\ UNCHANGED pipelineVars

\* delete_submission, submission_ref.delete() (lines 490-492)
DsDelete(r) ==
    /\ reqs[r].op = "delete_submission" /\ reqs[r].pc = "delete"
    /\ submissions' = Without(submissions, reqs[r].submission_id)
    /\ Return(r, 200)
    /\ UNCHANGED <<projects, issued, now, memVars>>
    /\ UNCHANGED pipelineVars

\* save_project, project_ref.get() (lines 291-298)
SpGetProject(r) ==
    /\ reqs[r].op = "save_project" /\ reqs[r].pc = "start"
    /\ IF reqs[r].project_id \notin DOMAIN projects
       THEN Return(r, 404)
       ELSE /\ Goto(r, [reqs[r] EXCEPT !.pc = "validate", !.i = 1])
            /\ UNCHANGED resp
    /\ UNCHANGED <<projects, submissions, issued, now, memVars>>
    /\ UNCHANGED pipelineVars

\* save_project, one iteration of the first pass (lines 302-326):
\* submission_ref.get() of the item
SpValidate(r) ==
    /\ reqs[r].op = "save_project" /\ reqs[r].pc = "validate"
    /\ reqs[r].i <= Len(reqs[r].data)
    /\ LET item == reqs[r].data[reqs[r].i]
       IN  IF ItemValid(item, submissions)
           THEN Goto(r, [reqs[r] EXCEPT !.candidates = Append(@, item),
                                        !.i = @ + 1])
           ELSE Goto(r, [reqs[r] EXCEPT !.failed = @ + 1, !.i = @ + 1])
    /\ UNCHANGED <<dbVars, memVars>>
    /\ UNCHANGED pipelineVars

\* save_project, the first pass is over (lines 330-337)
SpDecide(r) ==
    /\ reqs[r].op = "save_project" /\ reqs[r].pc = "validate"
    /\ reqs[r].i > Len(reqs[r].data)
    /\ IF reqs[r].failed > 0
       THEN Return(r, 400)
       ELSE /\ Goto(r, [reqs[r] EXCEPT !.pc = "apply", !.i = 1])
            /\ UNCHANGED resp
    /\ UNCHANGED <<projects, submissions, issued, now, memVars>>
    /\ UNCHANGED pipelineVars

\* save_project, one iteration of the second pass (lines 340-342):
\* item['ref'].update(item['update'])
SpApply(r) ==
    /\ reqs[r].op = "save_project" /\ reqs[r].pc = "apply"
    /\ reqs[r].i <= Len(reqs[r].candidates)
    /\ LET item == reqs[r].candidates[reqs[r].i]
       IN  submissions' = UpdateSubmission(submissions, item.fileid,
                                           item.filename, item.code,
                                           get_timestamp)
    /\ Goto(r, [reqs[r] EXCEPT !.i = @ + 1])
    /\ UNCHANGED <<projects, issued, now, resp, memVars>>
    /\ UNCHANGED pipelineVars

\* save_project, project_ref.update({'updated_at': ...}) (lines 344-347)
SpFinish(r) ==
    /\ reqs[r].op = "save_project" /\ reqs[r].pc = "apply"
    /\ reqs[r].i > Len(reqs[r].candidates)
    /\ projects' = UpdateFileids(projects, reqs[r].project_id,
                                 IF reqs[r].project_id \in DOMAIN projects
                                 THEN projects[reqs[r].project_id].fileids
                                 ELSE << >>,
                                 get_timestamp)
    /\ Return(r, 200)
    /\ UNCHANGED <<submissions, issued, now, memVars>>
    /\ UNCHANGED pipelineVars

----------------------------------------------------------------------------
(* services/memory_service.py: the five collections *)

\* ids as the callers give them: strings, written as their parts between
\* underscores ("a_b" is <<"a", "b">>)
MemUsers == {<<"a">>, <<"a", "b">>}
MemKeys == {<<"c">>, <<"b", "c">>}
InteractionTypes == {"query"}

\* datetime.now().isoformat()
InstantNames == <<"t0", "t1">>
Isoformat(t) == <<InstantNames[t + 1]>>

\* _generate_id (lines 99-102): the components joined by "_", then md5, which
\* is taken to be free of collisions: the id is the joined string
generate_id2(a, b) == a \o b
generate_id3(a, b, c) == a \o b \o c

\* the suffixes f"_file0_issue{j}" / f"_file0_error{j}" of the findings of a
\* review with one file
FindingNames == <<"0", "1">>
FindingId(review_id, kind, j) == review_id \o <<"file0", kind, FindingNames[j]>>

\* the number of documents in the collections
Count(mem) ==
    LET RECURSIVE Sum(_)
        Sum(cs) == IF cs = {} THEN 0
                   ELSE LET c == CHOOSE x \in cs : TRUE
                        IN  Cardinality(DOMAIN mem[c]) + Sum(cs \ {c})
    IN  Sum(CollectionNames)

\* collection.add(documents, metadatas, ids) of one document: an id the
\* collection already holds is not added again
Add(coll, id, meta) ==
    IF id \in DOMAIN coll THEN coll ELSE With(coll, id, meta)

\* collection.add for the findings 1..n of a review, one after the other
RECURSIVE AddFindings(_, _, _, _, _)
AddFindings(coll, review_id, kind, meta, n) ==
    IF n = 0 THEN coll
    ELSE Add(AddFindings(coll, review_id, kind, meta, n - 1),
             FindingId(review_id, kind, n), meta)

\* a store call: the collection it writes and what it leaves alone
Store(op, user_id, c, coll) ==
    /\ Count([memory EXCEPT ![c] = coll]) <= MaxDocuments
    /\ memory' = [memory EXCEPT ![c] = coll]
    /\ memOp' = [op |-> op, user_id |-> user_id, deleted |-> 0]
    /\ UNCHANGED <<dbVars, reqs>>
    /\ UNCHANGED pipelineVars

\* store_code_submission (lines 104-146)
StoreCodeSubmission(user_id, submission_id, project_id) ==
    Store("store", user_id, "code",
          Add(memory["code"], generate_id2(user_id, submission_id),
              [user_id |-> user_id, submission_id |-> submission_id,
               project_id |-> project_id, type |-> "code_submission"]))

\* store_security_review (lines 179-225) of a review with one file of n
\* issues
StoreSecurityReview(user_id, project_id, n) ==
    Store("store", user_id, "security",
          AddFindings(memory["security"],
                      generate_id3(user_id, project_id, Isoformat(now)),
                      "issue",
                      [user_id |-> user_id, project_id |-> project_id,
                       type |-> "security_issue"], n))

\* store_logic_review (lines 258-299) of a review with one file of n errors
StoreLogicReview(user_id, submission_id, project_id, n) ==
    Store("store", user_id, "logic",
          AddFindings(memory["logic"],
                      generate_id3(user_id, submission_id, Isoformat(now)),
                      "error",
                      [user_id |-> user_id, submission_id |-> submission_id,
                       project_id |-> project_id, type |-> "logic_error"], n))

\* store_user_interaction (lines 321-350); meta.update(metadata) lets the
\* caller's metadata replace user_id (override is << >> when it does not)
StoreUserInteraction(user_id, interaction_type, override) ==
    Store("store", user_id, "user",
          Add(memory["user"], generate_id2(user_id, Isoformat(now)),
              [user_id |-> IF override = << >> THEN user_id ELSE override,
               interaction_type |-> interaction_type,
               type |-> "user_interaction"]))

\* store_project_context (lines 369-406)
StoreProjectContext(user_id, project_id) ==
    Store("store", user_id, "project",
          Add(memory["project"], generate_id2(user_id, project_id),
              [user_id |-> user_id, project_id |-> project_id,
               type |-> "project_context"]))

\* collection.get(where={"user_id": user_id}) and collection.delete(ids=...)
\* (lines 521-527)
DeleteWhere(coll, user_id) ==
    [id \in {k \in DOMAIN coll : coll[k].user_id # user_id} |-> coll[id]]

\* clear_user_data whose list of collections lacks the project collection
ClearUserDataButProjects(user_id) ==
    /\ memory' = [c \in CollectionNames |->
                     IF c = "project" THEN memory[c]
                     ELSE DeleteWhere(memory[c], user_id)]
    /\ memOp' = [op |-> "clear_user_data", user_id |-> user_id,
                 deleted |-> Count(memory) - Count(memory')]
    /\ UNCHANGED <<dbVars, reqs>>
    /\ UNCHANGED pipelineVars

\* clear_user_data (lines 509-527)
ClearUserData(user_id) ==
    /\ memory' = [c \in CollectionNames |-> DeleteWhere(memory[c], user_id)]
    /\ memOp' = [op |-> "clear_user_data", user_id |-> user_id,
                 deleted |-> Count(memory) - Count(memory')]
    /\ UNCHANGED <<dbVars, reqs>>
    /\ UNCHANGED pipelineVars

----------------------------------------------------------------------------
(* Input files *)

Blanks(n) == [i \in 1..n |-> "blank"]

\* short files over every kind of line
Files == SeqsUpTo(Kinds, MaxLines)

\* files long enough for several fallback windows: a head, whole windows of
\* blank lines, a tail
RunTails == {<< >>} \cup {<<k>> : k \in RunKinds}

RunFiles ==
    {h \o Blanks(p * DefaultLinesPerChunk) \o t :
        h \in SeqsUpTo(RunKinds, MaxRunLines),
        p \in 0..MaxPads,
        t \in RunTails}

InitLocals ==
    /\ tree = << >>
    /\ nodeIdx = 0
    /\ chunks = << >>
    /\ top_level_code = << >>
    /\ last_node_end = 0
    /\ tasks = << >>
    /\ finished = << >>
    /\ results = << >>
    /\ report = << >>
    /\ exitStatus = -1
    /\ prev = << >>
    /\ linesPerChunk = 0
    /\ lineIdx = 0
    /\ InitStore

\* chunk_code_by_ast called on a file that was read
InitChunk ==
    /\ code \in Files \cup RunFiles
    /\ fileOk = TRUE
    /\ pc = "parse"
    /\ InitLocals

SpecChunk == InitChunk /\ [][ChunkNext]_vars

\* texts for chunk_code_by_lines: short ones, and long ones of 200, 201 and
\* 450 lines
ShortTexts == SeqsUpTo({"stmt", "blank"}, MaxTextLines)
LongTexts ==
    {[i \in 1..n |-> "stmt"] :
        n \in {DefaultLinesPerChunk, DefaultLinesPerChunk + 1, 450}}

\* the window sizes chunk_code_by_lines is called with in the program (line
\* 95, and the default of line 97), and the ones it can be given
CallWindows == {200, DefaultLinesPerChunk}
Windows == (-1..MaxWindow) \cup CallWindows

\* chunk_code_by_lines called on a text with a window size (the long texts
\* with the window sizes of the program)
InitLines ==
    /\ \/ code \in ShortTexts /\ linesPerChunk \in Windows
       \/ code \in LongTexts /\ linesPerChunk \in CallWindows
    /\ fileOk = TRUE
    /\ pc = "lines_call"
    /\ tree = << >>
    /\ nodeIdx = 0
    /\ chunks = << >>
    /\ top_level_code = << >>
    /\ last_node_end = 0
    /\ tasks = << >>
    /\ finished = << >>
    /\ results = << >>
    /\ report = << >>
    /\ exitStatus = -1
    /\ prev = << >>
    /\ lineIdx = 0
    /\ InitStore

SpecLines == InitLines /\ [][LinesNext]_vars

\* the outcomes a collection over n chunks can hold
Outcomes(n) == [chunk : 1..n, analysis : ClientTexts]

\* the aggregation step given any collection of at most MaxOutcomes outcomes
\* over n <= MaxOutcomes chunks of one line each
InitAggregate ==
    /\ \E n \in 0..MaxOutcomes :
          /\ code = [i \in 1..n |-> "stmt"]
          /\ chunks = [i \in 1..n |-> <<i>>]
          /\ results \in SeqsUpTo(Outcomes(n), MaxOutcomes)
    /\ fileOk = TRUE
    /\ pc = "aggregate"
    /\ tree = << >>
    /\ nodeIdx = 0
    /\ top_level_code = << >>
    /\ last_node_end = 0
    /\ tasks = << >>
    /\ finished = << >>
    /\ report = << >>
    /\ exitStatus = -1
    /\ prev = << >>
    /\ linesPerChunk = 0
    /\ lineIdx = 0
    /\ InitStore

SpecAggregate == InitAggregate /\ [][Aggregate]_vars

\* a run of the program on a file, readable or not
Init ==
    /\ \/ fileOk = TRUE /\ code \in RunFiles
       \/ fileOk = FALSE /\ code = << >>
    /\ pc = "read"
    /\ InitLocals

Next ==
    \/ ReadOk
    \/ ReadFail
    \/ ChunkNext
    \/ Dispatch
    \/ \E i \in 1..Len(tasks) : TaskStart(i)
    \/ \E i \in 1..Len(tasks), t \in ClientTexts : ClientReturn(i, t)
    \/ \E i \in 1..Len(tasks), e \in ClientErrors : ClientRaise(i, e)
    \/ GatherReturn
    \/ GatherRaise
    \/ Shutdown
    \/ ProcessExit

Spec == Init /\ [][Next]_vars

\* the event loop runs every callback that is ready and every client call
\* returns or raises: no step of the run stays possible for ever without
\* being taken
Fairness ==
    /\ WF_vars(ReadOk \/ ReadFail \/ ChunkNext \/ Dispatch)
    /\ WF_vars(GatherReturn \/ GatherRaise \/ Shutdown \/ ProcessExit)
    /\ \A i \in 1..(MaxRunLines + MaxPads + 1) :
          /\ WF_vars(TaskStart(i))
          /\ WF_vars(\/ \E t \in ClientTexts : ClientReturn(i, t)
                     \/ \E e \in ClientErrors : ClientRaise(i, e))

SpecFair == Spec /\ Fairness

\* what each task's client call gave in a run
ClientResults(ts) ==
    [i \in 1..Len(ts) |-> [client |-> ts[i].client, payload |-> ts[i].payload]]

\* the script is started a second time on the same file: a new process, in
\* which every module-level name and every local starts afresh (the program
\* writes no file and keeps nothing between invocations); prev keeps what
\* the first run printed, for comparison only
RunAgain ==
    /\ exitStatus # -1
    /\ prev = << >>
    /\ prev' = <<[report |-> report, chunks |-> chunks,
                  clients |-> ClientResults(tasks), exit |-> exitStatus]>>
    /\ pc' = "read"
    /\ tree' = << >>
    /\ nodeIdx' = 0
    /\ chunks' = << >>
    /\ top_level_code' = << >>
    /\ last_node_end' = 0
    /\ tasks' = << >>
    /\ finished' = << >>
    /\ results' = << >>
    /\ report' = << >>
    /\ exitStatus' = -1
    /\ UNCHANGED <<code, fileOk, linesVars, dbVars, sideVars>>

NextRuns ==
    \/ Next
    \/ RunAgain

\* the files run twice: those of RunFiles with a head of at most one line
RepeatFiles ==
    {h \o Blanks(p * DefaultLinesPerChunk) \o t :
        h \in RunTails,
        p \in 0..MaxPads,
        t \in RunTails}

InitRuns ==
    /\ \/ fileOk = TRUE /\ code \in RepeatFiles
       \/ fileOk = FALSE /\ code = << >>
    /\ pc = "read"
    /\ InitLocals

SpecRuns == InitRuns /\ [][NextRuns]_vars

\* the backend serving one user's requests one at a time, the chunk
\* processor not running
InitDb ==
    /\ code = << >>
    /\ fileOk = FALSE
    /\ pc = "off"
    /\ InitLocals

\* the first of the keys that uuid.uuid4() has not given yet
FirstFree(keys) ==
    {keys[i] : i \in {j \in 1..Len(keys) :
                        /\ keys[j] \notin issued
                        /\ \A k \in 1..(j-1) : keys[k] \in issued}}

\* requests on projects and their submissions; the projects all get one
\* name, and the ids, which these handlers only compare for equality, are
\* given in the order of the keys
NextDb ==
    \/ Tick
    \/ \E name \in SaveDemoNames \cup {""}, id \in FirstFree(ProjectKeys) :
          CreateProject(name, id)
    \/ \E p \in ProjectIds : DeleteProject(p)
    \/ \E p \in ProjectIds :
          \/ SaveProject(p, FALSE, << >>)
          \/ \E data \in SavePayloads : SaveProject(p, TRUE, data)
    \/ \E p \in ProjectIds, f \in Filenames \cup {""}, c \in Codes,
          id \in FirstFree(SubmissionKeys) : CreateSubmission(p, f, c, id)
    \/ \E sid \in SubmissionIds : DeleteSubmission(sid)

SpecDb == InitDb /\ [][NextDb]_vars

\* requests on projects only, with every name
NextProjects ==
    \/ Tick
    \/ \E name \in ProjectNames \cup {""}, id \in ProjectIds :
          CreateProject(name, id)
    \/ \E sort_by \in SortFields, order \in Orders : GetProjects(sort_by, order)
    \/ \E p \in ProjectIds : DeleteProject(p)

SpecProjects == InitDb /\ [][NextProjects]_vars

\* requests that create and delete submissions, one at a time
NextFiles ==
    \/ \E name \in SaveDemoNames, id \in FirstFree(ProjectKeys) :
          CreateProject(name, id)
    \/ \E p \in ProjectIds : DeleteProject(p)
    \/ \E p \in ProjectIds, f \in Filenames \cup {""}, c \in Codes,
          id \in FirstFree(FileKeys) : CreateSubmission(p, f, c, id)
    \/ \E p \in ProjectIds, files \in Batches, max_files \in {0, 1},
          max_bytes \in {0, 4}, ids \in FreshIdSeqs(FileKeys) :
          CreateSubmissionsBatch(p, files, max_files, max_bytes, ids)
    \/ \E sid \in FileIds : DeleteSubmission(sid)

SpecFiles == InitDb /\ [][NextFiles]_vars

\* requests on the submissions of one project, served at the same time
NextRequests ==
    \/ \E name \in SaveDemoNames, id \in FirstFree(ProjectKeys) :
          projects = << >> /\ CreateProject(name, id)
    \/ Arrive
    \/ \E r \in 1..Len(reqs) :
          \/ CsGetProject(r)
          \/ \E id \in FirstFree(SubmissionKeys) : CsSet(r, id)
          \/ CsUpdate(r)
          \/ DsGetSubmission(r)
          \/ DsGetProject(r)
          \/ DsUpdate(r)
          \/ DsDelete(r)
          \/ SpGetProject(r)
          \/ SpValidate(r)
          \/ SpDecide(r)
          \/ SpApply(r)
          \/ SpFinish(r)

SpecRequests == InitDb /\ [][NextRequests]_vars

\* calls of the memory service, one at a time
NextMemory ==
    \/ Tick
    \/ \E u \in MemUsers, sid \in MemKeys, p \in MemKeys :
          StoreCodeSubmission(u, sid, p)
    \/ \E u \in MemUsers, p \in MemKeys, n \in 0..Len(FindingNames) :
          StoreSecurityReview(u, p, n)
    \/ \E u \in MemUsers, sid \in MemKeys, p \in MemKeys,
          n \in 0..Len(FindingNames) : StoreLogicReview(u, sid, p, n)
    \/ \E u \in MemUsers, t \in InteractionTypes,
          o \in MemUsers \cup {<< >>} : StoreUserInteraction(u, t, o)
    \/ \E u \in MemUsers, p \in MemKeys : StoreProjectContext(u, p)
    \/ \E u \in MemUsers : ClearUserData(u)

SpecMemory == InitDb /\ [][NextMemory]_vars

----------------------------------------------------------------------------
(* Properties of a run (Spec) *)

ClientFailed(i) == tasks[i].client \in ClientErrors
ClientOk(i) == tasks[i].client = "ok"
FailedTasks == {i \in 1..Len(tasks) : ClientFailed(i)}

\* exactly one client call failed and every other one succeeded
OneClientFailure ==
    /\ Len(tasks) > 1
    /\ \A i \in 1..Len(tasks) : tasks[i].client # "none"
    /\ Cardinality(FailedTasks) = 1

\* C1 -- Failure isolation: when the client call fails for exactly one of
\* N > 1 chunks and succeeds for the others, the run is not aborted and its
\* report has N outcomes, each at its own chunk's position: the N-1 analyses
\* the client returned and the diagnostic of the failed call.
FailureIsolation ==
    OneClientFailure =>
        /\ pc \notin {"raised", "aborted"}
        /\ pc = "done" =>
            /\ Len(report) = Len(tasks)
            /\ \A i \in 1..Len(tasks) :
                /\ report[i].header = i
                /\ ClientOk(i) => report[i].body = tasks[i].payload
                /\ ClientFailed(i) =>
                       report[i].body = Diagnostic(tasks[i].client, ErrorMessage)

FailureIsolationWitness ==
    /\ pc = "done"
    /\ OneClientFailure
    /\ Len(tasks) >= 3
    /\ FailedTasks = {2}

TaskEnded(i) == tasks[i].st \in {"done", "raised"}

\* C2 -- Wait-for-all: once the gather has returned or raised, every task
\* has reached its own terminal state; none is still pending.
WaitForAll ==
    pc \in {"raised", "aborted", "done"} =>
        \A i \in 1..Len(tasks) : TaskEnded(i)

ReportHeaders == {report[i].header : i \in 1..Len(report)}

ReportAlwaysEmitted ==
    (fileOk /\ pc \in {"raised", "aborted", "done"}) =>
        /\ pc = "done"
        /\ Len(report) = Len(chunks)
        /\ ReportHeaders = 1..Len(chunks)

\* C5 -- Order restoration: the outcomes of the report are in ascending
\* chunk order, whatever the order in which the tasks ended.
OrderRestoration ==
    pc = "done" =>
        \A i \in 1..(Len(report) - 1) : report[i].header < report[i+1].header

OrderRestorationWitness ==
    /\ pc = "done"
    /\ Len(finished) >= 3
    /\ finished[1] > finished[2]
    /\ finished[2] > finished[3]

----------------------------------------------------------------------------
(* Properties of the chunker (SpecChunk) *)

InChunk(n, ch) == \E k \in 1..Len(ch) : ch[k] = n
Emitted(n) == \E j \in 1..Len(chunks) : InChunk(n, chunks[j])

\* the declarations of the file and the end of the declaration before line n
DefNodes == SelectSeq(ParseBody(code), LAMBDA nd : nd.type = "FunctionDef")

PrevDeclEnd(n) ==
    LET S == {d \in 1..Len(DefNodes) : DefNodes[d].end_lineno < n}
    IN  IF S = {} THEN 0 ELSE DefNodes[Max(S)].end_lineno

\* the lines between the previous declaration and declaration d
Stretch(d) == Slice(code, PrevDeclEnd(DefNodes[d].lineno), DefNodes[d].lineno - 1)

\* C6 -- Fallback correctness: for a text that does not parse, the chunker
\* returns the line windows of the whole text with the default window size,
\* and no structural walk has taken place.
FallbackCorrectness ==
    (pc = "chunked" /\ ~Valid(code)) =>
        /\ chunks = chunk_code_by_lines(code, DefaultLinesPerChunk)
        /\ nodeIdx = 0
        /\ tree = << >>

FallbackCorrectnessWitness ==
    /\ pc = "chunked"
    /\ ~Valid(code)
    /\ Len(chunks) >= 2

\* C7 -- Content conservation: every line of code of a valid file (every
\* non-blank line that is no comment) is in the text of some chunk.
ContentConservation ==
    (pc = "chunked" /\ Valid(code)) =>
        \A n \in 1..Len(code) :
            code[n] \notin {"blank", "comment"} => Emitted(n)

\* C8 -- Leftover-code flush: the non-import statements in front of a
\* declaration are emitted in a chunk of their own right before the
\* declaration's chunk, also when import lines lie in the same stretch.
LeftoverFlush ==
    (pc = "chunked" /\ Valid(code)) =>
        \A d \in 1..Len(DefNodes) :
            LET left == SelectSeq(Stretch(d), LAMBDA n : code[n] = "stmt")
            IN  left # << >> =>
                    \E j \in 1..(Len(chunks) - 1) :
                        /\ InChunk(DefNodes[d].lineno, chunks[j+1])
                        /\ \A k \in 1..Len(left) : InChunk(left[k], chunks[j])
                        /\ \A k \in 1..Len(chunks[j]) : code[chunks[j][k]] # "def"

\* the full source span of declaration d: its decorators, its header, its body
FullSpan(d) ==
    {n \in 1..Len(code) :
        \/ DefNodes[d].lineno <= n /\ n <= DefNodes[d].end_lineno
        \/ /\ code[n] = "deco"
           /\ PrevDeclEnd(DefNodes[d].lineno) < n
           /\ n < DefNodes[d].lineno}

\* C9 -- Structural boundary preservation: a valid file of N declarations
\* and nothing else gives N chunks, chunk i holding the full span of
\* declaration i and of no other.  Stated for the files whose declarations
\* may carry decorators and have blank lines between them.
StructuralBoundary ==
    (/\ pc = "chunked"
     /\ Valid(code)
     /\ Len(DefNodes) >= 1
     /\ \A n \in 1..Len(code) :
            code[n] \in {"def", "body", "deco", "blank"}) =>
        /\ Len(chunks) = Len(DefNodes)
        /\ \A d \in 1..Len(DefNodes) :
            /\ \A n \in FullSpan(d) : InChunk(n, chunks[d])
            /\ \A e \in 1..Len(DefNodes) :
                   e # d => \A n \in FullSpan(e) : ~InChunk(n, chunks[d])

\* C10 -- Import hoisting: the chunk of a declaration is the import
\* statements in front of it, whole and in order, followed by the
\* declaration; with no import in front, it is the declaration alone.
ImportHoisting ==
    (pc = "chunked" /\ Valid(code)) =>
        \A d \in 1..Len(DefNodes) :
            LET imps == SelectSeq(Stretch(d),
                            LAMBDA n : code[n] \in {"import", "importOpen", "cont"})
            IN  \E j \in 1..Len(chunks) :
                    chunks[j] = imps \o SourceSegment(code, DefNodes[d])

----------------------------------------------------------------------------
(* Properties of chunk_code_by_lines (SpecLines) *)

CeilDiv(a, b) == (a + b - 1) \div b

\* how many chunks hold line n
TimesEmitted(n) ==
    Cardinality({<<j, p>> \in (1..Len(chunks)) \X (1..Len(code)) :
                    p <= Len(chunks[j]) /\ chunks[j][p] = n})

\* C11 -- Fallback windows: for L lines and a window k >= 1 the result has
\* ceil(L/k) chunks, chunk j holds the lines j*k .. min((j+1)*k, L)-1
\* (counted from 0) in order, every chunk but the last has k lines, and every
\* line is in exactly one chunk.
FallbackWindows ==
    (pc = "lines_done" /\ linesPerChunk >= 1) =>
        LET L == Len(code)
            k == linesPerChunk
        IN  /\ Len(chunks) = CeilDiv(L, k)
            /\ \A j \in 1..Len(chunks) :
                LET last == IF j * k < L THEN j * k ELSE L
                IN  /\ Len(chunks[j]) = last - (j - 1) * k
                    /\ \A p \in 1..Len(chunks[j]) :
                           chunks[j][p] = (j - 1) * k + p
                    /\ j < Len(chunks) => Len(chunks[j]) = k
            /\ {n \in 1..L : TimesEmitted(n) # 1} = {}
            /\ chunks = chunk_code_by_lines(code, k)

FallbackWindowsWitness ==
    /\ pc = "lines_done"
    /\ linesPerChunk = 200
    /\ Len(code) = 450
    /\ Len(chunks) = 3
    /\ Len(chunks[1]) = 200
    /\ Len(chunks[2]) = 200
    /\ Len(chunks[3]) = 50

----------------------------------------------------------------------------
(* Further properties of a run (Spec) *)

\* C13 -- Once per chunk: when the run is over, the client has been invoked
\* exactly once for every chunk, with the persona prompt and the chunk's
\* text, and every chunk has exactly one outcome.
OncePerChunk ==
    pc \in {"done", "aborted"} =>
        \A i \in 1..Len(tasks) :
            /\ tasks[i].calls = 1
            /\ tasks[i].sent = <<SystemPrompt, chunks[i]>>
            /\ tasks[i].st = "done"
            /\ tasks[i].result.chunk = i

\* C14 -- No cancellation: no dispatched task is ever cancelled.
NoCancellation ==
    \A i \in 1..Len(tasks) : tasks[i].st # "cancelled"

\* C15 -- A read error comes first: when the file cannot be read, no chunk is
\* created, no task and so no client call is made, and no report is emitted.
ReadErrorFirst ==
    ~fileOk =>
        /\ pc \in {"read", "readfail"}
        /\ tree = << >>
        /\ chunks = << >>
        /\ tasks = << >>
        /\ results = << >>
        /\ report = << >>

ReadErrorFirstWitness ==
    /\ ~fileOk
    /\ pc = "readfail"
    /\ exitStatus # -1

\* C16 -- Exit behaviour: a run whose file cannot be read ends with a
\* non-zero exit status; a run whose file is read ends normally (status 0)
\* with the report printed.
ExitBehaviour ==
    exitStatus # -1 =>
        /\ ~fileOk => exitStatus # 0
        /\ fileOk => exitStatus = 0 /\ pc = "done"

----------------------------------------------------------------------------
(* The aggregation step (SpecAggregate) *)

----------------------------------------------------------------------------
(* Two runs over one file (SpecRuns) *)

\* the client gave, for every chunk for which it was called in both runs,
\* the same result in the second run as in the first
SameClientResults ==
    /\ Len(tasks) = Len(prev[1].clients)
    /\ \A i \in 1..Len(tasks) :
          (tasks[i].client # "none" /\ prev[1].clients[i].client # "none") =>
              /\ tasks[i].client = prev[1].clients[i].client
              /\ tasks[i].payload = prev[1].clients[i].payload

\* C18 -- Deterministic reassembly: when two runs over the same file have
\* ended and the client gave the same result for each chunk in both, the
\* second run has printed the same report, made the same chunks and ended
\* with the same exit status as the first, whatever the order in which the
\* tasks finished in either run.
DeterministicReassembly ==
    (prev # << >> /\ exitStatus # -1 /\ SameClientResults) =>
        /\ report = prev[1].report
        /\ chunks = prev[1].chunks
        /\ exitStatus = prev[1].exit

\* both runs printed a report of two sections, and the tasks of the second
\* run finished in the other order
DeterministicReassemblyWitness ==
    /\ prev # << >>
    /\ exitStatus # -1
    /\ SameClientResults
    /\ Len(report) = 2
    /\ report = prev[1].report
    /\ finished = <<2, 1>>

----------------------------------------------------------------------------
(* The backend (SpecDb) *)

\* a step that is a save_project request whose body is a JSON array
SaveStep == resp'.op = "save_project" /\ resp'.save.isList /\ now' = now

\* an item of the payload is not an object, has no fileid, or has a fileid
\* with no stored submission
HasInvalidItem(data, subs) ==
    \E i \in 1..Len(data) :
        \/ data[i].type # "dict"
        \/ data[i].fileid = ""
        \/ data[i].fileid \notin DOMAIN subs

StoreUnchanged == projects' = projects /\ submissions' = submissions

\* C19 as stated -- save_project is all-or-nothing: a request with an item
\* that fails validation is answered 400 and modifies no submission and no
\* project; submissions are modified only when every item is valid.
SaveInvalidAlways400 ==
    [][SaveStep =>
          /\ HasInvalidItem(resp'.save.data, submissions) =>
                resp'.status = 400 /\ StoreUnchanged
          /\ submissions' # submissions =>
                ~HasInvalidItem(resp'.save.data, submissions)]_vars

\* C19 -- save_project is all-or-nothing: for a stored project, a request
\* with an item that fails validation is answered 400 and modifies no
\* submission and no project; for a project that is not stored the answer is
\* 404 and nothing is modified; submissions are modified only when the
\* project is stored and every item is valid.
SaveAllOrNothing ==
    [][SaveStep =>
          /\ resp'.save.project_id \notin DOMAIN projects =>
                resp'.status = 404 /\ StoreUnchanged
          /\ (/\ resp'.save.project_id \in DOMAIN projects
              /\ HasInvalidItem(resp'.save.data, submissions)) =>
                resp'.status = 400 /\ StoreUnchanged
          /\ submissions' # submissions =>
                /\ resp'.save.project_id \in DOMAIN projects
                /\ ~HasInvalidItem(resp'.save.data, submissions)
                /\ resp'.status = 200]_vars

\* a payload of two items, one valid and one not, was answered 400 and the
\* valid item's submission still has the code it was created with
SaveAllOrNothingWitness ==
    /\ resp.op = "save_project"
    /\ resp.status = 400
    /\ resp.total_files = 2
    /\ resp.total_failed = 1
    /\ \E i \in 1..Len(resp.save.data) :
          /\ ItemValid(resp.save.data[i], submissions)
          /\ submissions[resp.save.data[i].fileid].code \in Codes
          /\ resp.save.data[i].code \notin Codes

\* the place of a project name in the case-insensitive order of the names
NameRank(name) == IF name = "apple" THEN 1 ELSE 2

\* C20 -- Sorting by name: the list that answers a get_projects request with
\* sort_by=project_name is ordered by project name compared
\* case-insensitively, ascending for order=asc and descending for
\* order=desc.
SortedByName ==
    (resp.op = "get_projects" /\ resp.query.sort_by = "project_name") =>
        \A i, j \in 1..Len(resp.body) :
            i < j =>
                IF resp.query.order = "asc"
                THEN NameRank(resp.body[i]) <= NameRank(resp.body[j])
                ELSE NameRank(resp.body[i]) >= NameRank(resp.body[j])

----------------------------------------------------------------------------
(* The memory service (SpecMemory) *)

\* the documents of the users other than u
OthersDocs(mem, u) == [c \in CollectionNames |-> DeleteWhere(mem[c], u)]

\* C21 -- clear_user_data: a step that is the call clear_user_data(u) leaves,
\* in each of the five collections, no document whose metadata user_id is u,
\* and leaves the documents of every other user as they were.
ClearUserDataComplete ==
    [][(memOp'.op = "clear_user_data" /\ now' = now) =>
          /\ \A c \in CollectionNames : \A id \in DOMAIN memory'[c] :
                memory'[c][id].user_id # memOp'.user_id
          /\ OthersDocs(memory', memOp'.user_id)
                = OthersDocs(memory, memOp'.user_id)]_vars

\* clear_user_data(u) has returned after u and another user stored
\* documents: the other user's document is there
ClearUserDataCompleteWitness ==
    /\ memOp.op = "clear_user_data"
    /\ memOp.deleted >= 1
    /\ \E c \in CollectionNames : \E id \in DOMAIN memory[c] :
          /\ memory[c][id].user_id # memOp.user_id
          /\ c = "project"

----------------------------------------------------------------------------
(* Further properties of the chunks and the run *)

\* C22 -- Chunks are not blank: every chunk handed to analyze_chunk has a
\* non-whitespace character, so that taking its first line cannot fail.
ChunksNotBlank ==
    \A i \in 1..Len(tasks) : ~FirstLineFails(code, chunks[i])

\* the import lines accumulated in front of declaration d
Accumulated(d) == ImportLines(code, Strip(code, Stretch(d)))

\* C23 -- Pending imports are used once: the buffer is empty after every
\* iteration that emitted a chunk, and in the result each accumulated import
\* line is in exactly one chunk, the chunk of the declaration that follows
\* it, which starts with the lines accumulated in front of that declaration.
ImportsUsedOnce ==
    /\ (pc \in {"walk", "chunked"} /\ Valid(code)) => top_level_code = << >>
    /\ (pc = "chunked" /\ Valid(code)) =>
          \A d \in 1..Len(DefNodes) :
              /\ \A k \in 1..Len(Accumulated(d)) :
                    TimesEmitted(Accumulated(d)[k]) = 1
              /\ \E j \in 1..Len(chunks) :
                    chunks[j] = Accumulated(d) \o SourceSegment(code, DefNodes[d])

\* a file with two declarations, the first with an import in front of it
ImportsUsedOnceWitness ==
    /\ pc = "chunked"
    /\ Valid(code)
    /\ Len(DefNodes) >= 2
    /\ Accumulated(1) # << >>
    /\ Accumulated(2) = << >>

\* the lines of chunk j that are not import lines
NonImport(j) == {chunks[j][k] : k \in {x \in 1..Len(chunks[j]) :
                                         ~StartsWithImport(code, chunks[j][x])}}

\* C24 -- Chunk indices follow source order: of two chunks of the structural
\* chunker, every line of the earlier one that is not an import line lies in
\* the file before every such line of the later one.
SourceOrder ==
    (pc = "chunked" /\ Valid(code) /\ ParseBody(code) # << >>) =>
        \A i, j \in 1..Len(chunks) :
            i < j => \A m \in NonImport(i) : \A n \in NonImport(j) : m < n

\* three chunks: top-level code, a declaration with its import, the rest
SourceOrderWitness ==
    /\ pc = "chunked"
    /\ Valid(code)
    /\ ParseBody(code) # << >>
    /\ Len(chunks) >= 3
    /\ \A j \in 1..Len(chunks) : NonImport(j) # {}
    /\ \E j \in 1..Len(chunks) : \E k \in 1..Len(chunks[j]) :
          StartsWithImport(code, chunks[j][k])

\* C25 -- Failures are distinguishable: in a printed report, the section of a
\* chunk whose client call failed differs, apart from its chunk number, from
\* the section of every chunk whose client call succeeded.
FailureDistinguishable ==
    pc = "done" =>
        \A i, j \in 1..Len(tasks) :
            (tasks[i].client = "ok" /\ tasks[j].client \in ClientErrors) =>
                report[i].body # report[j].body

\* the tasks whose client call is in flight
InFlight == {i \in 1..Len(tasks) : tasks[i].st = "inflight"}

\* C26 -- No concurrency limit: while gather is awaited, the next task in the
\* order of the chunks can take its first step and make its client call in
\* every state, whatever number of client calls are in flight; no call waits
\* for another call to finish.
NoConcurrencyLimit ==
    pc = "gather" =>
        \A i \in 1..Len(tasks) :
            (/\ tasks[i].st = "created"
             /\ \A j \in 1..(i-1) : tasks[j].st # "created") =>
                ENABLED TaskStart(i)

\* the client calls of all the chunks of a file of three or more chunks are
\* in flight at the same time
NoConcurrencyLimitWitness ==
    /\ pc = "gather"
    /\ Len(tasks) >= 3
    /\ InFlight = 1..Len(tasks)
    /\ \A i \in 1..Len(tasks) : tasks[i].calls = 1

\* C27 -- Termination: under fair scheduling, with every client call
\* returning or raising, a run that read its file leads to the state where
\* the gather has returned and the report is printed.
RunCompletes ==
    (fileOk /\ pc = "read") ~> (pc = "done" /\ Len(report) = Len(chunks))

NoIdLost ==
    reqs = << >> =>
        \A s \in DOMAIN submissions :
            submissions[s].projectid \in DOMAIN projects =>
                Times(projects[submissions[s].projectid].fileids, s) >= 1

\* C30 -- save_project creates no submission: once the requests that were
\* served at the same time have all returned, every stored submission is a
\* complete record with its id and its projectid.
NoResurrection ==
    reqs = << >> =>
        \A s \in DOMAIN submissions :
            submissions[s].id = s /\ submissions[s].projectid # ""

====
